---------------------------- MODULE Spec2Model ----------------------------
(***************************************************************************)
(* A model of the DCAT search glue layer:                                  *)
(*   - models/dataset.py          Dataset, primary_title, to_content,      *)
(*                                to_metadata                              *)
(*   - parsers/rdf_parser.py      RDFParser (extraction from a graph)      *)
(*   - query parser/query_parser.py  QueryIntent, QueryParser.parse        *)
(*   - vector_stores/qdrant_store.py QdrantVectorStoreManager              *)
(*                                                                         *)
(* A Python str is a sequence of one-character strings.  An Optional is    *)
(* None (the empty tuple) or Some(x) (the one-element tuple).  Each of the *)
(* four components has its own specification; the variables of the other   *)
(* components stay at their initial values under it.                       *)
(***************************************************************************)
EXTENDS Integers, Sequences, FiniteSets

VARIABLES
    \* ---- models/dataset.py: one Dataset and what was computed from it
    dataset,        \* the Dataset instance
    content,        \* the value to_content() returned
    metadata,       \* the value to_metadata() returned
    computed,       \* which of "content", "metadata" have been computed
    \* ---- parsers/rdf_parser.py: one run of _extract_datasets
    graph,            \* the parsed graph: a set of triples <<s, p, o>>
    rpc,              \* where _extract_datasets stands
    dataset_subjects, \* its local list of the subjects found
    datasets,         \* its local list of the Datasets built so far; the result
    \* ---- query parser/query_parser.py: one call of parse at a time
    query,          \* the argument of the call
    entry,          \* the function called: "parse" or "parse_query"
    qpc,            \* where the call stands
    invocations,    \* chain.invoke calls made by this call
    response,       \* what the LLM collaborator answered
    qlog,           \* the records this call handed to the logger
    result,         \* the QueryIntent returned, if one was
    error,          \* the exception in flight or raised to the caller, if any
    \* ---- vector_stores/qdrant_store.py: one manager and its database
    client,             \* self.client: None or Some(n), the n-th client built
    vector_store,       \* self.vector_store: None or Some(store)
    embedding_dim,      \* the length of the vectors self.embeddings returns
    collection,         \* the named collection in the database: None or Some(config)
    spc,                \* where the manager's current call stands
    last,               \* the latest call of the manager and how it ended
    requests,           \* insert and search requests that reached the database
    sent,               \* the latest of them
    init_calls,         \* initialize() calls so far
    init_done,          \* initialize() calls that returned normally
    done_at_call,       \* init_done when the current initialize() was called
    collection_at_call, \* collection when the current initialize() was called
    probes,             \* embed_query calls of the current initialize()
    creates,            \* create_collection calls of the current initialize()
    test_embedding      \* the local of _ensure_collection_exists

dvars == <<dataset, content, metadata, computed>>
rvars == <<graph, rpc, dataset_subjects, datasets>>
qvars == <<query, entry, qpc, invocations, response, qlog, result, error>>

svars == <<client, vector_store, embedding_dim, collection, spc, last, requests,
           sent, init_calls, init_done, done_at_call, collection_at_call,
           probes, creates, test_embedding>>

vars == <<dvars, rvars, qvars, svars>>

-----------------------------------------------------------------------------
(* Values shared by the components *)

None == <<>>
Some(x) == <<x>>

NL == <<"\n">>

\* The sequences over S of length at most n.
SeqsUpTo(S, n) == UNION {[1..k -> S] : k \in 0..n}

RECURSIVE Join(_, _)
\* Python's sep.join(xs) for a list xs of str.
Join(sep, xs) ==
    IF xs = <<>> THEN <<>>
    ELSE IF Len(xs) = 1 THEN xs[1]
    ELSE xs[1] \o sep \o Join(sep, Tail(xs))

-----------------------------------------------------------------------------
(* models/dataset.py *)

MaxList == 2

TitleLabel == <<"T", "i", "t", "l", "e", ":", " ">>
DescriptionLabel ==
    <<"D", "e", "s", "c", "r", "i", "p", "t", "i", "o", "n", ":", " ">>
KeywordsLabel == <<"K", "e", "y", "w", "o", "r", "d", "s", ":", " ">>
SemiSep == <<";", " ">>
CommaSep == <<",", " ">>

\* The field values the Datasets of the model are built from.  Titles and
\* descriptions as RDF literals carry them may hold line breaks.
TitleValues == {<<"A">>, <<"B">>, <<"A", "\n">>}
DescriptionValues == {<<"D">>, <<"\n", "D">>}
KeywordValues == {<<"k">>, <<>>}
AccessValues == {<<"u">>}
DownloadValues == {<<"v">>}
IdValues == {None, Some(<<"i", "d">>)}

Dataset(t, d, k, a, dl, id) ==
    [titles |-> t, descriptions |-> d, keywords |-> k,
     access_urls |-> a, download_urls |-> dl, dataset_id |-> id]

Datasets ==
    {Dataset(t, d, k, a, dl, id) :
        t \in SeqsUpTo(TitleValues, MaxList),
        d \in SeqsUpTo(DescriptionValues, MaxList),
        k \in SeqsUpTo(KeywordValues, MaxList),
        a \in SeqsUpTo(AccessValues, MaxList),
        dl \in SeqsUpTo(DownloadValues, MaxList),
        id \in IdValues}

\* primary_title with the last title taken instead of the first.
primary_title_last(d) ==
    IF d.titles # <<>> THEN Some(d.titles[Len(d.titles)]) ELSE None

\* The first title, or None when there is none.
primary_title(d) ==
    IF d.titles # <<>> THEN Some(d.titles[1]) ELSE None

\* to_content with every section appended whether or not its list is empty.
to_content_unguarded(d) ==
    Join(NL, <<TitleLabel \o Join(SemiSep, d.titles),
               DescriptionLabel \o Join(SemiSep, d.descriptions),
               KeywordsLabel \o Join(CommaSep, d.keywords)>>)

to_content(d) ==
    LET p0 == <<>>
        p1 == IF d.titles # <<>>
              THEN Append(p0, TitleLabel \o Join(SemiSep, d.titles))
              ELSE p0
        p2 == IF d.descriptions # <<>>
              THEN Append(p1, DescriptionLabel \o Join(SemiSep, d.descriptions))
              ELSE p1
        content_parts ==
              IF d.keywords # <<>>
              THEN Append(p2, KeywordsLabel \o Join(CommaSep, d.keywords))
              ELSE p2
    IN  Join(NL, content_parts)

to_metadata(d) ==
    [title |-> primary_title(d),
     dataset_id |-> d.dataset_id,
     keywords |-> d.keywords,
     access_urls |-> d.access_urls,
     download_urls |-> d.download_urls]

NoMetadata == [k \in {} |-> None]

DatasetIdle ==
    /\ dataset = Dataset(<<>>, <<>>, <<>>, <<>>, <<>>, None)
    /\ content = <<>>
    /\ metadata = NoMetadata
    /\ computed = {}

RdfIdle ==
    /\ graph = {}
    /\ rpc = "idle"
    /\ dataset_subjects = <<>>
    /\ datasets = <<>>

NoResponse == [kind |-> "none"]

QueryIdle ==
    /\ query = <<>>
    /\ entry = "none"
    /\ qpc = "idle"
    /\ invocations = 0
    /\ response = NoResponse
    /\ qlog = <<>>
    /\ result = None
    /\ error = None

NoCall == [op |-> "none", outcome |-> "none", error |-> None]
NoRequest == [kind |-> "none"]

StoreIdle ==
    /\ client = None
    /\ vector_store = None
    /\ embedding_dim = 1
    /\ collection = None
    /\ spc = "ready"
    /\ last = NoCall
    /\ requests = 0
    /\ sent = NoRequest
    /\ init_calls = 0
    /\ init_done = 0
    /\ done_at_call = 0
    /\ collection_at_call = None
    /\ probes = 0
    /\ creates = 0
    /\ test_embedding = <<>>

DatasetInit ==
    /\ dataset \in Datasets
    /\ content = <<>>
    /\ metadata = NoMetadata
    /\ computed = {}
    /\ RdfIdle
    /\ QueryIdle
    /\ StoreIdle

ToContent ==
    /\ "content" \notin computed
    /\ content' = to_content(dataset)
    /\ computed' = computed \cup {"content"}
    /\ UNCHANGED <<dataset, metadata, rvars, qvars, svars>>

ToMetadata ==
    /\ "metadata" \notin computed
    /\ metadata' = to_metadata(dataset)
    /\ computed' = computed \cup {"metadata"}
    /\ UNCHANGED <<dataset, content, rvars, qvars, svars>>

DatasetNext == ToContent \/ ToMetadata

SpecDataset == DatasetInit /\ [][DatasetNext]_vars

-----------------------------------------------------------------------------
(* parsers/rdf_parser.py *)

MaxTriples == 6

\* RDF terms.  str() of a term is its lexical form: the language tag of a
\* literal and the difference between a URI and a literal are dropped.  The
\* extractor never takes a lexical form apart, so it is an atomic string here.
Uri(x) == [kind |-> "uri", lex |-> x, lang |-> ""]
Lit(x, l) == [kind |-> "literal", lex |-> x, lang |-> l]
str(term) == term.lex

RDF_type == Uri("http://www.w3.org/1999/02/22-rdf-syntax-ns#type")
DCAT_Dataset == Uri("http://www.w3.org/ns/dcat#Dataset")
DCAT_Distribution == Uri("http://www.w3.org/ns/dcat#Distribution")
DCAT_keyword == Uri("http://www.w3.org/ns/dcat#keyword")
DCAT_distribution == Uri("http://www.w3.org/ns/dcat#distribution")
DCAT_accessURL == Uri("http://www.w3.org/ns/dcat#accessURL")
DCAT_downloadURL == Uri("http://www.w3.org/ns/dcat#downloadURL")
DCT_title == Uri("http://purl.org/dc/terms/title")
DCT_description == Uri("http://purl.org/dc/terms/description")

\* The triples the graphs of the model are made of: two dataset subjects
\* (d2 never has a title, description or keyword), two distributions (x2 may
\* hang off either dataset), and an access URL that x1 may carry both as a
\* URI and as a literal.
D1 == Uri("http://x/d1")
D2 == Uri("http://x/d2")
X1 == Uri("http://x/dist1")
X2 == Uri("http://x/dist2")

TripleUniverse ==
    {<<D1, RDF_type, DCAT_Dataset>>,
     <<D2, RDF_type, DCAT_Dataset>>,
     <<X1, RDF_type, DCAT_Distribution>>,
     <<D1, DCT_title, Lit("Air Quality 2024", "en")>>,
     <<D1, DCT_title, Lit("Luftqualitaet 2024", "de")>>,
     <<D1, DCT_description, Lit("D", "")>>,
     <<D1, DCAT_keyword, Lit("air", "")>>,
     <<D1, DCAT_keyword, Lit("quality", "")>>,
     <<D1, DCAT_distribution, X1>>,
     <<D1, DCAT_distribution, X2>>,
     <<D2, DCAT_distribution, X2>>,
     <<X1, DCAT_accessURL, Uri("http://x/access")>>,
     <<X1, DCAT_accessURL, Lit("http://x/access", "")>>,
     <<X2, DCAT_accessURL, Uri("http://y/access")>>,
     <<X1, DCAT_downloadURL, Uri("http://x/download")>>,
     <<X2, DCAT_downloadURL, Uri("http://y/download")>>}

Graphs == {g \in SUBSET TripleUniverse : Cardinality(g) <= MaxTriples}

\* Graph.subjects(p, o) and Graph.objects(s, p): the matching terms, as a set.
\* A Graph holds a triple once; the order it yields them in is not specified.
subjects(g, p, o) == {t[1] : t \in {u \in g : u[2] = p /\ u[3] = o}}
objects(g, s, p) == {t[3] : t \in {u \in g : u[1] = s /\ u[2] = p}}

\* The orders an iteration over the set S may take.
Orders(S) ==
    {f \in [1..Cardinality(S) -> S] : \A i, j \in DOMAIN f : f[i] = f[j] => i = j}

\* [str(x) for x in graph.objects(s, p)], in each order the graph may yield.
StrLists(g, s, p) ==
    {[i \in DOMAIN o |-> str(o[i])] : o \in Orders(objects(g, s, p))}

\* graph.subjects(RDF.type) without the object: every typed subject.
TypedSubjectLists(g) ==
    Orders({t[1] : t \in {u \in g : u[2] = RDF_type}})

\* list(graph.subjects(RDF.type, self.dcat.Dataset)), in each possible order.
DatasetSubjectLists(g) == Orders(subjects(g, RDF_type, DCAT_Dataset))

RECURSIVE UrlLists(_, _, _)
\* The list the loop over distributions extends by the values of p.
UrlLists(g, distributions, p) ==
    IF distributions = <<>> THEN {<<>>}
    ELSE {h \o t : h \in StrLists(g, Head(distributions), p),
                   t \in UrlLists(g, Tail(distributions), p)}

\* _extract_distribution_urls over every distribution node of the graph.
extract_distribution_urls_any(g, dataset_uri) ==
    UNION {UrlLists(g, ds, DCAT_accessURL) \X UrlLists(g, ds, DCAT_downloadURL) :
             ds \in Orders({t[3] : t \in {u \in g : u[2] = DCAT_distribution}})}

\* The pairs <<access_urls, download_urls>> _extract_distribution_urls may
\* return for dataset_uri.
extract_distribution_urls(g, dataset_uri) ==
    UNION {UrlLists(g, ds, DCAT_accessURL) \X UrlLists(g, ds, DCAT_downloadURL) :
             ds \in Orders(objects(g, dataset_uri, DCAT_distribution))}

\* The Datasets _extract_single_dataset may return for dataset_uri.
extract_single_dataset(g, dataset_uri) ==
    {Dataset(t, d, k, urls[1], urls[2], None) :
        t \in StrLists(g, dataset_uri, DCT_title),
        d \in StrLists(g, dataset_uri, DCT_description),
        k \in StrLists(g, dataset_uri, DCAT_keyword),
        urls \in extract_distribution_urls(g, dataset_uri)}

RdfInit ==
    /\ graph \in Graphs
    /\ rpc = "start"
    /\ dataset_subjects = <<>>
    /\ datasets = <<>>
    /\ DatasetIdle
    /\ QueryIdle
    /\ StoreIdle

\* _extract_datasets, up to its loop.
ExtractDatasetsBegin ==
    /\ rpc = "start"
    /\ datasets' = <<>>
    /\ dataset_subjects' \in DatasetSubjectLists(graph)
    /\ rpc' = "loop"
    /\ UNCHANGED <<graph, dvars, qvars, svars>>

\* One turn of the loop: the next subject's Dataset is appended.
ExtractDatasetsStep ==
    /\ rpc = "loop"
    /\ Len(datasets) < Len(dataset_subjects)
    /\ \E d \in extract_single_dataset(graph, dataset_subjects[Len(datasets) + 1]) :
          datasets' = Append(datasets, d)
    /\ UNCHANGED <<graph, rpc, dataset_subjects, dvars, qvars, svars>>

\* The loop is over: datasets is returned.
ExtractDatasetsReturn ==
    /\ rpc = "loop"
    /\ Len(datasets) = Len(dataset_subjects)
    /\ rpc' = "done"
    /\ UNCHANGED <<graph, dataset_subjects, datasets, dvars, qvars, svars>>

RdfNext == ExtractDatasetsBegin \/ ExtractDatasetsStep \/ ExtractDatasetsReturn

SpecRDF == RdfInit /\ [][RdfNext]_vars

-----------------------------------------------------------------------------
(* query parser/query_parser.py *)

MaxQueryLen == 2

\* Characters that str.strip() removes, and the characters of the model.
Whitespace == {" ", "\t", "\n", "\r"}
QueryChars == {"a", " ", "\t"}
QueryStrings == SeqsUpTo(QueryChars, MaxQueryLen)

RECURSIVE lstrip(_)
lstrip(s) == IF s # <<>> /\ Head(s) \in Whitespace THEN lstrip(Tail(s)) ELSE s

RECURSIVE rstrip(_)
rstrip(s) ==
    IF s # <<>> /\ s[Len(s)] \in Whitespace THEN rstrip(SubSeq(s, 1, Len(s) - 1)) ELSE s

\* Python's str.strip().
strip(s) == rstrip(lstrip(s))

\* The exceptions of the model.
Exception(type, msg) == [type |-> type, msg |-> msg]
EmptyQueryError == Exception("ValueError", "Query cannot be empty")
EmptyThemeError == Exception("OutputParserException", "raw_theme cannot be empty")
MalformedError == Exception("OutputParserException", "Invalid json output")
TransportErrors ==
    {Exception("APIConnectionError", "Connection error."),
     Exception("RateLimitError", "Rate limit reached")}

\* What the LLM collaborator may answer: a failure of the call, text that is
\* no JSON of the schema, or a JSON object with a raw_theme and locations.
Responses ==
    [kind : {"failure"}, error : TransportErrors]
    \cup {[kind |-> "malformed"]}
    \cup [kind : {"json"}, raw_theme : QueryStrings,
          locations : {<<>>, <<"Muenster">>}]

\* The guard of parse with the strip() test left out.
query_is_empty_unstripped(q) == q = <<>>

\* The guard of parse: not query or not query.strip().
query_is_empty(q) == q = <<>> \/ strip(q) = <<>>

\* validate_raw_theme with the value returned as it came.
validate_raw_theme_unstripped(v) ==
    IF v = <<>> \/ strip(v) = <<>>
    THEN [raised |-> TRUE, value |-> <<>>]
    ELSE [raised |-> FALSE, value |-> v]

\* QueryIntent.validate_raw_theme: raises, or returns the stripped value.
validate_raw_theme(v) ==
    IF v = <<>> \/ strip(v) = <<>>
    THEN [raised |-> TRUE, value |-> <<>>]
    ELSE [raised |-> FALSE, value |-> strip(v)]

QueryIntent(raw_theme, locations) ==
    [raw_theme |-> raw_theme, locations |-> locations,
     themes |-> <<>>, publishers |-> <<>>]

\* chain.invoke: the model call, then PydanticOutputParser building the
\* QueryIntent, whose validator runs on raw_theme.
chain_invoke(r) ==
    CASE r.kind = "failure" -> [raised |-> TRUE, error |-> r.error, value |-> None]
      [] r.kind = "malformed" -> [raised |-> TRUE, error |-> MalformedError, value |-> None]
      [] r.kind = "json" ->
            LET v == validate_raw_theme(r.raw_theme)
            IN  IF v.raised
                THEN [raised |-> TRUE, error |-> EmptyThemeError, value |-> None]
                ELSE [raised |-> FALSE, error |-> EmptyThemeError,
                      value |-> Some(QueryIntent(v.value, r.locations))]

LogRecord(level, text, arg) == [level |-> level, text |-> text, arg |-> arg]

QueryInit ==
    /\ QueryIdle
    /\ DatasetIdle
    /\ RdfIdle
    /\ StoreIdle

\* A caller calls parse(q), or parse_query(q), which builds a QueryParser
\* and calls its parse(q).
ParseCall ==
    /\ qpc \in {"idle", "returned", "raised"}
    /\ query' \in QueryStrings
    /\ entry' \in {"parse", "parse_query"}
    /\ qpc' = "validate"
    /\ invocations' = 0
    /\ response' = NoResponse
    /\ qlog' = <<>>
    /\ result' = None
    /\ error' = None
    /\ UNCHANGED <<dvars, rvars, svars>>

\* The guard of parse, and the first logger.info.
ParseValidate ==
    /\ qpc = "validate"
    /\ IF query_is_empty(query)
       THEN /\ qpc' = "raised"
            /\ error' = Some(EmptyQueryError)
            /\ qlog' = qlog
       ELSE /\ qpc' = "invoke"
            /\ error' = error
            /\ qlog' = Append(qlog, LogRecord("info", "Parsing query: {query}", None))
    /\ UNCHANGED <<query, entry, invocations, response, result, dvars, rvars, svars>>

\* self.chain.invoke(...), and on success the second logger.info and return.
ChainInvoke ==
    /\ qpc = "invoke"
    /\ invocations' = invocations + 1
    /\ \E r \in Responses :
          LET out == chain_invoke(r)
          IN  /\ response' = r
              /\ IF out.raised
                 THEN /\ qpc' = "except"
                      /\ error' = Some(out.error)
                      /\ result' = result
                      /\ qlog' = qlog
                 ELSE /\ qpc' = "returned"
                      /\ error' = error
                      /\ result' = out.value
                      /\ qlog' = Append(qlog,
                            LogRecord("info", "Successfully parsed: {result.raw_theme}", None))
    /\ UNCHANGED <<query, entry, dvars, rvars, svars>>

\* An except clause that calls the chain once more before giving up.
ParseExceptRetry ==
    /\ qpc = "except"
    /\ qlog' = Append(qlog, LogRecord("error", "Failed to parse query: ", error))
    /\ qpc' = IF invocations < 2 THEN "invoke" ELSE "raised"
    /\ UNCHANGED <<query, entry, invocations, response, result, error, dvars, rvars, svars>>

\* except Exception as e: logger.error(...); raise
ParseExcept ==
    /\ qpc = "except"
    /\ qlog' = Append(qlog, LogRecord("error", "Failed to parse query: ", error))
    /\ qpc' = "raised"
    /\ UNCHANGED <<query, entry, invocations, response, result, error, dvars, rvars, svars>>

QueryNext == ParseCall \/ ParseValidate \/ ChainInvoke \/ ParseExcept

SpecQuery == QueryInit /\ [][QueryNext]_vars

-----------------------------------------------------------------------------
(* vector_stores/qdrant_store.py *)

MaxDim == 2
MaxInitCalls == 2
MaxRequests == 2

CollectionName == "dcat_colllection"

DataOps == {"add_datasets", "similarity_search", "similarity_search_with_score"}

NotInitializedError(op) ==
    Exception("ValueError",
              IF op = "add_datasets"
              THEN "Vector store is not initialized. Call initialize() first."
              ELSE "Vector store is not initialized")
NoneTypeError == Exception("AttributeError", "'NoneType' object has no attribute")
CollaboratorError == Exception("CollaboratorError", "raised by the client or the embeddings")

Returned(op) == [op |-> op, outcome |-> "returned", error |-> None]
Raised(op, e) == [op |-> op, outcome |-> "raised", error |-> Some(e)]
Running(op) == [op |-> op, outcome |-> "running", error |-> None]

\* The configurations a collection found in the database may have.
Configs == [size : 1..MaxDim, distance : {"Cosine", "Dot"}]

\* self.embeddings.embed_query(text): a vector of the model's length.
embed_query(text) == [i \in 1..embedding_dim |-> 0]

\* The lists add_datasets is called with.
DatasetLists ==
    {<<>>,
     <<Dataset(<< <<"A">>, <<"B">> >>, << <<"D">> >>, <<>>, <<>>, <<>>, None)>>}

\* _datasets_to_documents
datasets_to_documents(ds) ==
    [i \in DOMAIN ds |->
        [page_content |-> to_content(ds[i]), metadata |-> to_metadata(ds[i])]]

\* The guard with the client handle tested instead of the store.
NotInitializedByClient == client = None

\* The guard left out.
NotInitializedNever == FALSE

\* `not self.vector_store`, the guard of the three data operations.
NotInitialized == vector_store = None

StoreInit ==
    /\ client = None
    /\ vector_store = None
    /\ embedding_dim \in 1..MaxDim
    /\ collection \in {None} \cup {Some(c) : c \in Configs}
    /\ spc = "ready"
    /\ last = NoCall
    /\ requests = 0
    /\ sent = NoRequest
    /\ init_calls = 0
    /\ init_done = 0
    /\ done_at_call = 0
    /\ collection_at_call = collection
    /\ probes = 0
    /\ creates = 0
    /\ test_embedding = <<>>
    /\ DatasetIdle
    /\ RdfIdle
    /\ QueryIdle

\* initialize(): self.client = QdrantClient(...)
InitializeCall ==
    /\ spc = "ready"
    /\ init_calls < MaxInitCalls
    /\ init_calls' = init_calls + 1
    /\ client' = Some(init_calls + 1)
    /\ spc' = "collection_exists"
    /\ last' = Running("initialize")
    /\ done_at_call' = init_done
    /\ collection_at_call' = collection
    /\ probes' = 0
    /\ creates' = 0
    /\ test_embedding' = <<>>
    /\ UNCHANGED <<vector_store, embedding_dim, collection, requests, sent, init_done,
                   dvars, rvars, qvars>>

\* A collaborator raises: the exception leaves initialize() where it stands.
InitializeRaises ==
    /\ spc' = "ready"
    /\ last' = Raised("initialize", CollaboratorError)
    /\ UNCHANGED <<client, vector_store, embedding_dim, collection, requests, sent,
                   init_calls, init_done, done_at_call, collection_at_call,
                   test_embedding, dvars, rvars, qvars>>

\* _ensure_collection_exists with the existence test left out.
CollectionExistsIgnored ==
    /\ spc = "collection_exists"
    /\ UNCHANGED <<probes, creates>>
    /\ \/ InitializeRaises
       \/ /\ spc' = "embed_query"
          /\ UNCHANGED <<client, vector_store, embedding_dim, collection, last,
                         requests, sent, init_calls, init_done, done_at_call,
                         collection_at_call, test_embedding, dvars, rvars, qvars>>

\* _ensure_collection_exists: if not self.client.collection_exists(...)
CollectionExists ==
    /\ spc = "collection_exists"
    /\ UNCHANGED <<probes, creates>>
    /\ \/ InitializeRaises
       \/ /\ spc' = IF collection # None THEN "build_store" ELSE "embed_query"
          /\ UNCHANGED <<client, vector_store, embedding_dim, collection, last,
                         requests, sent, init_calls, init_done, done_at_call,
                         collection_at_call, test_embedding, dvars, rvars, qvars>>

\* test_embedding = self.embeddings.embed_query("test")
EmbedProbe ==
    /\ spc = "embed_query"
    /\ probes' = probes + 1
    /\ UNCHANGED creates
    /\ \/ InitializeRaises
       \/ /\ test_embedding' = embed_query("test")
          /\ spc' = "create_collection"
          /\ UNCHANGED <<client, vector_store, embedding_dim, collection, last,
                         requests, sent, init_calls, init_done, done_at_call,
                         collection_at_call, dvars, rvars, qvars>>

\* self.client.create_collection(..., {"size": len(test_embedding),
\* "distance": "Cosine"})
CreateCollection ==
    /\ spc = "create_collection"
    /\ creates' = creates + 1
    /\ UNCHANGED probes
    /\ \/ InitializeRaises
       \/ /\ collection' = Some([size |-> Len(test_embedding), distance |-> "Cosine"])
          /\ spc' = "build_store"
          /\ UNCHANGED <<client, vector_store, embedding_dim, last, requests, sent,
                         init_calls, init_done, done_at_call, collection_at_call,
                         test_embedding, dvars, rvars, qvars>>

\* self.vector_store = QdrantVectorStore(client=..., collection_name=..., ...)
BuildVectorStore ==
    /\ spc = "build_store"
    /\ UNCHANGED <<probes, creates>>
    /\ \/ InitializeRaises
       \/ /\ vector_store' = Some([client |-> client[1],
                                   collection_name |-> CollectionName])
          /\ spc' = "ready"
          /\ last' = Returned("initialize")
          /\ init_done' = init_done + 1
          /\ UNCHANGED <<client, embedding_dim, collection, requests, sent,
                         init_calls, done_at_call, collection_at_call,
                         test_embedding, dvars, rvars, qvars>>

\* A data operation op whose request to the store would be req: the guard,
\* then the call on self.vector_store, which the database may fail.
DataOperation(op, req) ==
    /\ IF NotInitialized
       THEN /\ last' = Raised(op, NotInitializedError(op))
            /\ UNCHANGED <<requests, sent>>
       ELSE IF vector_store = None
       THEN /\ last' = Raised(op, NoneTypeError)
            /\ UNCHANGED <<requests, sent>>
       ELSE /\ requests < MaxRequests
            /\ requests' = requests + 1
            /\ sent' = req
            /\ \E e \in {None, Some(CollaboratorError)} :
                  last' = [op |-> op, error |-> e,
                           outcome |-> IF e = None THEN "returned" ELSE "raised"]
    /\ UNCHANGED <<client, vector_store, embedding_dim, collection, spc, init_calls,
                   init_done, done_at_call, collection_at_call, probes, creates,
                   test_embedding, dvars, rvars, qvars>>

AddDatasets ==
    /\ spc = "ready"
    /\ \E ds \in DatasetLists :
          DataOperation("add_datasets",
                        [kind |-> "add_documents",
                         documents |-> datasets_to_documents(ds)])

\* With filter_criteria the filter is passed on, without it it is not.
SimilaritySearch ==
    /\ spc = "ready"
    /\ \E filter_criteria \in BOOLEAN :
          DataOperation("similarity_search",
                        [kind |-> "similarity_search", filter |-> filter_criteria])

SimilaritySearchWithScore ==
    /\ spc = "ready"
    /\ \E filter_criteria \in BOOLEAN :
          DataOperation("similarity_search_with_score",
                        [kind |-> "similarity_search_with_score",
                         filter |-> filter_criteria])

StoreNext ==
    \/ InitializeCall
    \/ CollectionExists
    \/ EmbedProbe
    \/ CreateCollection
    \/ BuildVectorStore
    \/ AddDatasets
    \/ SimilaritySearch
    \/ SimilaritySearchWithScore

SpecStore == StoreInit /\ [][StoreNext]_vars

-----------------------------------------------------------------------------
(* Properties of the Dataset record and the document mapping *)

RECURSIVE Flatten(_)
Flatten(ss) == IF ss = <<>> THEN <<>> ELSE Head(ss) \o Flatten(Tail(ss))

\* A labelled section: the label, then the elements with sep between them.
Section(label, xs, sep) ==
    label \o Flatten([i \in 1..Len(xs) |-> IF i = 1 THEN xs[i] ELSE sep \o xs[i]])

\* The content the three lists call for, case by case on which are empty.
ExpectedContent(d) ==
    LET T == Section(TitleLabel, d.titles, SemiSep)
        D == Section(DescriptionLabel, d.descriptions, SemiSep)
        K == Section(KeywordsLabel, d.keywords, CommaSep)
        t == d.titles # <<>>
        e == d.descriptions # <<>>
        k == d.keywords # <<>>
    IN  CASE t /\ e /\ k -> T \o NL \o D \o NL \o K
          [] t /\ e /\ ~k -> T \o NL \o D
          [] t /\ ~e /\ k -> T \o NL \o K
          [] t /\ ~e /\ ~k -> T
          [] ~t /\ e /\ k -> D \o NL \o K
          [] ~t /\ e /\ ~k -> D
          [] ~t /\ ~e /\ k -> K
          [] ~t /\ ~e /\ ~k -> <<>>

NewlineCount(s) == Cardinality({i \in 1..Len(s) : s[i] = "\n"})

RECURSIVE NewlinesIn(_)
\* The line breaks the elements of a list hold themselves.
NewlinesIn(xs) ==
    IF xs = <<>> THEN 0 ELSE NewlineCount(Head(xs)) + NewlinesIn(Tail(xs))

NoLeadingNewline(s) == s = <<>> \/ s[1] # "\n"
NoTrailingNewline(s) == s = <<>> \/ s[Len(s)] # "\n"
NoDoubledNewline(s) == \A i \in 1..(Len(s) - 1) : ~(s[i] = "\n" /\ s[i + 1] = "\n")

SectionsPresent(d) ==
    Cardinality({f \in {"titles", "descriptions", "keywords"} : d[f] # <<>>})

ExampleDataset(d) ==
    /\ d.titles = << <<"A">>, <<"B">> >>
    /\ d.descriptions = << <<"D">> >>
    /\ d.keywords = <<>>

ExampleContent ==
    <<"T", "i", "t", "l", "e", ":", " ", "A", ";", " ", "B", "\n",
      "D", "e", "s", "c", "r", "i", "p", "t", "i", "o", "n", ":", " ", "D">>

\* C3 as stated: to_content() is the newline-join of the non-empty lists'
\* labelled sections in the order Title, Description, Keywords, and the
\* result never has a leading, trailing or doubled newline.
C3_AsStated ==
    "content" \in computed =>
        /\ content = ExpectedContent(dataset)
        /\ ExampleDataset(dataset) => content = ExampleContent
        /\ SectionsPresent(dataset) = 0 => content = <<>>
        /\ NoLeadingNewline(content)
        /\ NoTrailingNewline(content)
        /\ NoDoubledNewline(content)

\* C3 (amended): to_content() is the newline-join of the non-empty lists'
\* labelled sections in the order Title, Description, Keywords; it is empty
\* when all three lists are empty, never starts with a newline, and holds
\* one newline between consecutive sections besides the newlines of the
\* elements themselves, so that when no element holds a newline it has no
\* leading, trailing or doubled newline.
C3_Content ==
    "content" \in computed =>
        /\ content = ExpectedContent(dataset)
        /\ ExampleDataset(dataset) => content = ExampleContent
        /\ SectionsPresent(dataset) = 0 => content = <<>>
        /\ NoLeadingNewline(content)
        /\ NewlineCount(content) =
              (IF SectionsPresent(dataset) = 0 THEN 0 ELSE SectionsPresent(dataset) - 1)
              + NewlinesIn(dataset.titles) + NewlinesIn(dataset.descriptions)
              + NewlinesIn(dataset.keywords)
        /\ (NewlinesIn(dataset.titles) + NewlinesIn(dataset.descriptions)
              + NewlinesIn(dataset.keywords) = 0)
              => NoTrailingNewline(content) /\ NoDoubledNewline(content)

\* The content of the Dataset with titles A, B and description D was computed.
C3_Witness ==
    /\ "content" \in computed
    /\ ExampleDataset(dataset)
    /\ content = ExampleContent

MetadataKeys == {"title", "dataset_id", "keywords", "access_urls", "download_urls"}

\* C4: to_metadata() has exactly the five keys; keywords, access_urls,
\* download_urls and dataset_id are the Dataset's fields unchanged, and title
\* is the first title, or None when there is no title.
C4_Metadata ==
    "metadata" \in computed =>
        /\ DOMAIN metadata = MetadataKeys
        /\ metadata.keywords = dataset.keywords
        /\ metadata.access_urls = dataset.access_urls
        /\ metadata.download_urls = dataset.download_urls
        /\ metadata.dataset_id = dataset.dataset_id
        /\ Len(dataset.titles) > 0 => metadata.title = Some(Head(dataset.titles))
        /\ Len(dataset.titles) = 0 => metadata.title = None

\* The metadata of a Dataset with no title, no keyword, no URL and no id.
C4_Witness ==
    /\ "metadata" \in computed
    /\ dataset.titles = <<>>
    /\ dataset.keywords = <<>>
    /\ dataset.access_urls = <<>>
    /\ dataset.download_urls = <<>>
    /\ dataset.dataset_id = None
    /\ DOMAIN metadata = MetadataKeys
    /\ metadata.title = None

-----------------------------------------------------------------------------
(* Properties of the RDF extractor *)

Occurrences(list, v) == Cardinality({i \in DOMAIN list : list[i] = v})

\* The subjects the graph types as a dcat:Dataset, read off the triples.
TypedAsDataset ==
    {s \in {t[1] : t \in graph} : <<s, RDF_type, DCAT_Dataset>> \in graph}

\* list holds, in some order, the lexical forms of the objects of <<s, p, _>>.
HoldsValuesOf(list, s, p) ==
    \A v \in {t[3].lex : t \in graph} \cup {list[i] : i \in DOMAIN list} :
        Occurrences(list, v) =
            Cardinality({t \in graph : t[1] = s /\ t[2] = p /\ t[3].lex = v})

\* list holds, in some order, the lexical forms of the objects of p of the
\* nodes that s has a dcat:distribution edge to: one entry per such triple.
HoldsDistributionValuesOf(list, s, p) ==
    \A v \in {t[3].lex : t \in graph} \cup {list[i] : i \in DOMAIN list} :
        Occurrences(list, v) =
            Cardinality({t \in graph : /\ t[2] = p
                                       /\ t[3].lex = v
                                       /\ <<s, DCAT_distribution, t[1]>> \in graph})

\* C5: extraction returns one Dataset per distinct subject typed dcat:Dataset
\* and none for another subject, the empty list when there is no such subject,
\* and a typed subject without title, description and keyword gives a Dataset
\* whose lists are empty.
C5_OnePerSubject ==
    rpc = "done" =>
        /\ Len(datasets) = Cardinality(TypedAsDataset)
        /\ Len(dataset_subjects) = Len(datasets)
        /\ {dataset_subjects[i] : i \in DOMAIN dataset_subjects} = TypedAsDataset
        /\ TypedAsDataset = {} => datasets = <<>>
        /\ \A i \in DOMAIN datasets :
              LET s == dataset_subjects[i]
                  d == datasets[i]
              IN  /\ HoldsValuesOf(d.titles, s, DCT_title)
                  /\ HoldsValuesOf(d.descriptions, s, DCT_description)
                  /\ HoldsValuesOf(d.keywords, s, DCAT_keyword)
                  /\ (\A t \in graph :
                        t[1] = s => t[2] \notin {DCT_title, DCT_description, DCAT_keyword})
                     => d.titles = <<>> /\ d.descriptions = <<>> /\ d.keywords = <<>>

\* A graph with a typed subject that has no title, description or keyword,
\* and another subject that is typed as something else: one Dataset, empty.
C5_Witness ==
    /\ rpc = "done"
    /\ <<D2, RDF_type, DCAT_Dataset>> \in graph
    /\ <<X1, RDF_type, DCAT_Distribution>> \in graph
    /\ <<D1, RDF_type, DCAT_Dataset>> \notin graph
    /\ <<D1, DCT_title, Lit("Air Quality 2024", "en")>> \in graph
    /\ Len(datasets) = 1
    /\ datasets[1].titles = <<>>
    /\ datasets[1].descriptions = <<>>
    /\ datasets[1].keywords = <<>>

\* The graph of the scenario: one Dataset subject with a title, two keywords
\* and one Distribution that has an access URL only.
ScenarioGraph ==
    {<<D1, RDF_type, DCAT_Dataset>>,
     <<D1, DCT_title, Lit("Air Quality 2024", "en")>>,
     <<D1, DCAT_keyword, Lit("air", "")>>,
     <<D1, DCAT_keyword, Lit("quality", "")>>,
     <<D1, DCAT_distribution, X1>>,
     <<X1, DCAT_accessURL, Uri("http://x/access")>>}

\* C6: access_urls (download_urls) of each extracted Dataset holds exactly the
\* dcat:accessURL (dcat:downloadURL) values of the nodes its subject has a
\* dcat:distribution edge to, in one flat list; no other distribution adds to
\* it, and it is empty when there is no such value.
C6_DistributionUrls ==
    rpc = "done" =>
        /\ \A i \in DOMAIN datasets :
              LET s == dataset_subjects[i]
                  d == datasets[i]
              IN  /\ HoldsDistributionValuesOf(d.access_urls, s, DCAT_accessURL)
                  /\ HoldsDistributionValuesOf(d.download_urls, s, DCAT_downloadURL)
                  /\ (\A t \in graph : t[1] = s => t[2] # DCAT_distribution)
                     => d.access_urls = <<>> /\ d.download_urls = <<>>
        /\ graph = ScenarioGraph =>
              /\ Len(datasets) = 1
              /\ datasets[1].titles = <<"Air Quality 2024">>
              /\ datasets[1].keywords \in {<<"air", "quality">>, <<"quality", "air">>}
              /\ datasets[1].access_urls = <<"http://x/access">>
              /\ datasets[1].download_urls = <<>>

\* Dataset d1 has distribution x1 with an access URL only, while x2, which
\* carries other URLs, hangs off d2 alone: d1 gets x1's access URL and no
\* download URL.
C6_Witness ==
    /\ rpc = "done"
    /\ graph = {<<D1, RDF_type, DCAT_Dataset>>,
                <<D1, DCAT_distribution, X1>>,
                <<X1, DCAT_accessURL, Uri("http://x/access")>>,
                <<D2, DCAT_distribution, X2>>,
                <<X2, DCAT_accessURL, Uri("http://y/access")>>,
                <<X2, DCAT_downloadURL, Uri("http://y/download")>>}
    /\ Len(datasets) = 1
    /\ datasets[1].access_urls = <<"http://x/access">>
    /\ datasets[1].download_urls = <<>>

-----------------------------------------------------------------------------
(* Properties of the query intent extractor *)

\* The query is empty or holds whitespace only.
Blank(q) == \A i \in DOMAIN q : q[i] \in Whitespace

\* v is t with whitespace added before and after it.
TrimsTo(v, t) ==
    \E i \in 1..(Len(v) + 1) : \E j \in (i - 1)..Len(v) :
        /\ t = SubSeq(v, i, j)
        /\ \A k \in (1..(i - 1)) \cup ((j + 1)..Len(v)) : v[k] \in Whitespace

ErrorRecords == {qlog[i] : i \in {k \in DOMAIN qlog : qlog[k].level = "error"}}

\* C2: parse, and parse_query through it, raises the empty-query error for
\* every empty or whitespace-only query, and no chain invocation is made on
\* the way.
C2_EmptyQueryRejected ==
    (qpc # "idle" /\ Blank(query)) =>
        /\ qpc \in {"validate", "raised"}
        /\ invocations = 0
        /\ response = NoResponse
        /\ result = None
        /\ qpc = "raised" => error = Some(EmptyQueryError)

\* parse_query was called with a query of two whitespace characters and raised.
C2_Witness ==
    /\ qpc = "raised"
    /\ entry = "parse_query"
    /\ query = <<" ", "\t">>
    /\ error = Some(EmptyQueryError)
    /\ invocations = 0

\* C8: a QueryIntent that parse returns has a raw_theme that is not empty and
\* has no whitespace at either end: it is the response's raw_theme trimmed,
\* and a response whose raw_theme is empty or whitespace makes parse raise.
C8_RawThemeTrimmed ==
    /\ qpc = "returned" =>
          /\ result # None
          /\ response.kind = "json"
          /\ result[1].raw_theme # <<>>
          /\ Head(result[1].raw_theme) \notin Whitespace
          /\ result[1].raw_theme[Len(result[1].raw_theme)] \notin Whitespace
          /\ TrimsTo(response.raw_theme, result[1].raw_theme)
    /\ (response.kind = "json" /\ Blank(response.raw_theme)) =>
          /\ qpc \in {"except", "raised"}
          /\ result = None
          /\ error # None

\* The response's raw_theme had whitespace on both sides and came back trimmed.
C8_Witness ==
    /\ qpc = "returned"
    /\ response.kind = "json"
    /\ response.raw_theme = <<" ", "a">>
    /\ result # None
    /\ result[1].raw_theme = <<"a">>

\* The error chain.invoke raises for a response, read off the response.
Failed(r) == r.kind \in {"failure", "malformed"} \/ (r.kind = "json" /\ Blank(r.raw_theme))

\* C9: for a query that is not empty (after trimming), parse invokes the
\* chain exactly once; when that fails the error is logged once and is the
\* error raised to the caller: no second invocation, no QueryIntent.
C9_OneRoundTrip ==
    (qpc # "idle" /\ ~Blank(query)) =>
        /\ invocations <= 1
        /\ qpc \in {"except", "returned", "raised"} => invocations = 1
        /\ Failed(response) =>
              /\ qpc \in {"except", "raised"}
              /\ result = None
              /\ error # None
              /\ response.kind = "failure" => error = Some(response.error)
              /\ response.kind # "failure" => error[1].type = "OutputParserException"
        /\ qpc = "raised" =>
              /\ Failed(response)
              /\ ErrorRecords = {LogRecord("error", "Failed to parse query: ", error)}
              /\ qlog[Len(qlog)].level = "error"
              /\ Cardinality({k \in DOMAIN qlog : qlog[k].level = "error"}) = 1
        /\ qpc = "returned" => ~Failed(response) /\ ErrorRecords = {}

\* The model call failed with a rate-limit error: logged, raised, one call.
C9_Witness ==
    /\ qpc = "raised"
    /\ query = <<"a">>
    /\ response.kind = "failure"
    /\ error = Some(Exception("RateLimitError", "Rate limit reached"))
    /\ invocations = 1
    /\ result = None
    /\ qlog[Len(qlog)] = LogRecord("error", "Failed to parse query: ", error)

-----------------------------------------------------------------------------
(* Properties of the vector store manager *)

\* The latest call was a data operation that raised the not-initialized error.
RaisedNotInitialized ==
    /\ last.outcome = "raised"
    /\ last.error # None
    /\ last.error[1].type = "ValueError"
    /\ last.error[1].msg \in {"Vector store is not initialized",
                              "Vector store is not initialized. Call initialize() first."}

\* C1: as long as initialize() has not been called, each of add_datasets,
\* similarity_search and similarity_search_with_score raises the
\* not-initialized ValueError, and no insert or search request reaches the
\* database.
C1_NotInitialized ==
    init_calls = 0 =>
        /\ requests = 0
        /\ sent = NoRequest
        /\ last.op \in DataOps => RaisedNotInitialized

\* similarity_search_with_score was called on a fresh manager and raised.
C1_Witness ==
    /\ init_calls = 0
    /\ last.op = "similarity_search_with_score"
    /\ RaisedNotInitialized
    /\ requests = 0

\* The current or latest initialize() was called with the collection absent.
AbsentAtCall == collection_at_call = None

\* What every initialize() does, failed or not: at most one probe and one
\* create call, a create call only when the collection was absent at the
\* call and after the probe; when it was present, no probe, no create call
\* and the configuration untouched; a call that returns normally has created
\* the collection exactly once iff it was absent, with cosine distance and
\* the probe's length as size.
InitializeCreatesIfAbsent ==
    /\ probes <= 1
    /\ creates <= 1
    /\ creates = 1 => AbsentAtCall /\ probes = 1
    /\ ~AbsentAtCall => probes = 0 /\ creates = 0 /\ collection = collection_at_call
    /\ collection # collection_at_call =>
          /\ creates = 1
          /\ collection = Some([size |-> embedding_dim, distance |-> "Cosine"])
    /\ last = Returned("initialize") =>
          /\ creates = 1 <=> AbsentAtCall
          /\ collection # None
          /\ AbsentAtCall =>
                collection = Some([size |-> embedding_dim, distance |-> "Cosine"])

C10_FailedInitialize ==
    /\ init_done = 0 =>
          /\ vector_store = None
          /\ requests = 0
          /\ last.op \in DataOps => RaisedNotInitialized
    /\ vector_store # None => init_done >= 1
    /\ (init_done >= 1 /\ last.op \in DataOps) =>
          /\ ~RaisedNotInitialized
          /\ requests >= 1

\* initialize() failed after the collection was created; add_datasets raised.
C10_Witness ==
    /\ init_calls = 1
    /\ init_done = 0
    /\ client # None
    /\ vector_store = None
    /\ collection_at_call = None
    /\ collection # None
    /\ last.op = "add_datasets"
    /\ RaisedNotInitialized

=============================================================================
